---- MODULE Spec2Model ----
(***************************************************************************)
(* A model of src/fake_excel_generator.py: the column-letter arithmetic,   *)
(* the streaming worksheet scanner (parse_sheet_meta), the shared-string   *)
(* table (parse_shared_strings), the sheet writers (build_row_xml,         *)
(* write_table_sheet, write_source_sheet) and the archive patch that       *)
(* main() performs.                                                        *)
(*                                                                         *)
(* Text is modelled as a sequence of character codes (ord), so that        *)
(* "A" is <<65>>, "AA" is <<65, 65>> and "a1" is <<97, 49>>.               *)
(***************************************************************************)
EXTENDS Integers, Sequences, FiniteSets, TLC

VARIABLES
    \* ---- address arithmetic (col_index_to_letter / col_letter_to_index)
    aPc,        \* "idle" | "start" | "encoded" | "decoded" | "input" | "returned" | "raised"
    aIdx,       \* the column index handed to col_index_to_letter
    aLetter,    \* the letters: col_index_to_letter's result, or col_letter_to_index's input
    aOut,       \* the integer col_letter_to_index returned
    aErr        \* the exception col_letter_to_index raised, "none" when it returned

VARIABLES
    \* ---- the worksheet scanner (parse_sheet_meta)
    sPc,        \* "idle" | "loop" | "after" | "returned" | "raised"
    sDoc,       \* the worksheet part being read
    sPos,       \* number of parse events taken from the stream so far
    sSt,        \* the locals: headers, max_row, dimension_ref
    sRows,      \* number of row elements whose end event was processed
    sHdrRows,   \* the row elements (by position in the sheet) taken as the header row
    sRet        \* the tuple returned: headers, max_row, max_col_letter

VARIABLES
    \* ---- main(): the archive patch
    pc,             \* where main() is: "open", "strings", ..., "done" | "failed"
    err,            \* the exception that ended main(), "none" otherwise
    failedAt,       \* where main() was when the exception was raised
    fs,             \* the archives on disk, by path
    fs0,            \* the archives on disk when main() started
    tmpDir,         \* whether Salida/_tmp_fake_excel exists
    tmpFiles,       \* the files of that directory, by name, with what they hold
    tmp0,           \* tmpDir and tmpFiles when main() started
    shared_strings, \* parse_shared_strings' result
    rel_map,        \* relationship id -> target
    sheets,         \* the workbook's sheet elements, in document order
    sheetIdx,       \* the next sheet element of the loop at line 367
    sheet_info,     \* sheet name -> path, headers, max_row, max_col_letter
    data,           \* week_data, brand_data, category_data, source_headers, source_row_count
    replacements,   \* member name -> temporary file name
    written,        \* what each temporary file held when it was registered
    copyIdx         \* the next member of the copy loop at line 471

VARIABLES
    \* ---- the sheet writers (write_table_sheet / write_source_sheet)
    wPc,        \* "idle" | "open" | "dimension" | "header" | "rows" | "generated" |
                \* "close" | "done" | "raised"
    wMode,      \* "table" (write_table_sheet) | "source" (write_source_sheet)
    wHeaders,   \* headers
    wFlags,     \* num_flags
    wRows,      \* list(rows), the rows handed to write_table_sheet
    wRowCount,  \* row_count, handed to write_source_sheet
    wDicts,     \* brand_rows, category_rows, week_rows
    wFile,      \* what the file holds: complete, dimension, rows
    wBytes,     \* whether anything was written to the file
    wIdx,       \* idx, the loop variable of line 324 / 350
    wHeld,      \* the generated rows not yet written
    wCalls,     \* the row indexes build_source_row was called for, in order
    wErr        \* the exception that ended the call, "none" otherwise

VARIABLES
    \* ---- the shared-string table (parse_shared_strings)
    tPc,        \* "idle" | "start" | "items" | "returned"
    tPart,      \* xl/sharedStrings.xml: present, items (each the texts of its t elements)
    tPos,       \* number of si elements handled so far
    tOut        \* strings

synthVars == <<wPc, wMode, wHeaders, wFlags, wRows, wRowCount, wDicts, wFile, wBytes,
               wIdx, wHeld, wCalls, wErr>>
stringVars == <<tPc, tPart, tPos, tOut>>
unitVars == <<synthVars, stringVars>>

addrVars == <<aPc, aIdx, aLetter, aOut, aErr>>
mainVars == <<pc, err, failedAt, fs, fs0, tmpDir, tmpFiles, tmp0, shared_strings, rel_map, sheets,
              sheetIdx, sheet_info, data, replacements, written, copyIdx>>
scanVars == <<sPc, sDoc, sPos, sSt, sRows, sHdrRows, sRet>>

vars == <<aPc, aIdx, aLetter, aOut, aErr,
          sPc, sDoc, sPos, sSt, sRows, sHdrRows, sRet,
          pc, err, failedAt, fs, fs0, tmpDir, tmpFiles, tmp0, shared_strings, rel_map, sheets,
          sheetIdx, sheet_info, data, replacements, written, copyIdx,
          wPc, wMode, wHeaders, wFlags, wRows, wRowCount, wDicts, wFile, wBytes,
          wIdx, wHeld, wCalls, wErr,
          tPc, tPart, tPos, tOut>>

(***************************************************************************)
(* Bounds                                                                  *)
(***************************************************************************)
\* The largest column index encoded and decoded again (ZZZ = 18278).
MaxCol == 18278

\* The longest text handed to col_letter_to_index.
MaxLetters == 2

\* The largest number of row elements of a scanned worksheet.
MaxRows == 3

\* The largest number of cells of a scanned worksheet's first row.
MaxCells == 2

(***************************************************************************)
(* Characters                                                              *)
(***************************************************************************)
\* The characters of the texts handed to col_letter_to_index:
\* "A", "Z", "a", "z", "1" and "-".
LetterAlphabet == {65, 90, 97, 122, 49, 45}

IsUpper(c) == c \in 65..90
IsLower(c) == c \in 97..122
IsAlpha(c) == IsUpper(c) \/ IsLower(c)

\* str.upper() of one character (ASCII).
Upper(c) == IF IsLower(c) THEN c - 32 ELSE c

\* All texts over alphabet S of length at most n.
RECURSIVE TextsUpTo(_, _)
TextsUpTo(S, n) ==
    IF n = 0 THEN {<<>>}
    ELSE LET shorter == TextsUpTo(S, n - 1)
         IN  shorter \cup {Append(t, c) : t \in {u \in shorter : Len(u) = n - 1}, c \in S}

(***************************************************************************)
(* col_index_to_letter: the while loop, letters built by prepending.       *)
(***************************************************************************)
RECURSIVE IndexLoop(_, _)
IndexLoop(idx, letters) ==
    IF idx = 0 THEN letters
    ELSE IndexLoop((idx - 1) \div 26, <<65 + ((idx - 1) % 26)>> \o letters)

\* The same loop with divmod(idx, 26) for divmod(idx - 1, 26).
RECURSIVE IndexLoopNoShift(_, _)
IndexLoopNoShift(idx, letters) ==
    IF idx = 0 THEN letters
    ELSE IndexLoopNoShift(idx \div 26, <<65 + (idx % 26)>> \o letters)

col_index_to_letter_noshift(idx) == IndexLoopNoShift(idx, <<>>)

col_index_to_letter(idx) == IndexLoop(idx, <<>>)

(***************************************************************************)
(* col_letter_to_index: idx = idx * 26 + (ord(ch.upper()) - 64) per        *)
(* character, with no check of the character.                              *)
(***************************************************************************)
RECURSIVE LetterLoop(_, _, _)
LetterLoop(letter, i, idx) ==
    IF i > Len(letter) THEN idx
    ELSE LetterLoop(letter, i + 1, idx * 26 + (Upper(letter[i]) - 64))

col_letter_to_index(letter) == LetterLoop(letter, 1, 0)

(***************************************************************************)
(* Worksheet parts.  A worksheet is [hasDim, dim, rows]: dim is the text   *)
(* of the dimension element's ref attribute (NoAttr when the element or    *)
(* the attribute is absent), rows the row elements in document order.  A   *)
(* row                                                                     *)
(* is [r, cells], r = 0 standing for a row element without r attribute.    *)
(* A cell is [r, t, hasV, v, hasIs, is]: its reference text (NoAttr when   *)
(* absent), its t attribute, and the text of its v child and of its        *)
(* inline-string t child when it has them.                                 *)
(***************************************************************************)
\* An absent attribute: a text no document can hold (NUL is not an XML
\* character).
NoAttr == <<0>>

\* Decimal digits of a natural number, as text.
RECURSIVE Digits(_)
Digits(n) == IF n < 10 THEN <<48 + n>> ELSE Digits(n \div 10) \o <<48 + (n % 10)>>

IsDigit(c) == c \in 48..57

\* int() of a text of decimal digits.
RECURSIVE IntOfFrom(_, _, _)
IntOfFrom(t, i, acc) ==
    IF i > Len(t) THEN acc ELSE IntOfFrom(t, i + 1, acc * 10 + (t[i] - 48))

IntOf(t) == IntOfFrom(t, 1, 0)

\* The longest run of capital letters (of digits) of t from position i
\* on: what [A-Z]+ ([0-9]+) matches at i, <<>> when it matches nothing.
RECURSIVE UpperRun(_, _)
UpperRun(t, i) ==
    IF i > Len(t) \/ ~IsUpper(t[i]) THEN <<>> ELSE <<t[i]>> \o UpperRun(t, i + 1)

RECURSIVE DigitRun(_, _)
DigitRun(t, i) ==
    IF i > Len(t) \/ ~IsDigit(t[i]) THEN <<>> ELSE <<t[i]>> \o DigitRun(t, i + 1)

\* re.match(r"([A-Z]+)", ref).group(1), or <<>> when there is no match.
LeadingUpper(ref) == UpperRun(ref, 1)

\* A key that makes no use of the cell's reference: every cell gets the
\* key of "A", so the stable sort keeps the document's order.
CellSortKeyPositional(c) == col_letter_to_index(<<65>>)

\* The sort key of line 84-88: the column index of the reference's leading
\* letters, "A" standing in for a reference that has none.
CellSortKey(c) ==
    LET ref == IF c.r = NoAttr THEN <<>> ELSE c.r
        m   == LeadingUpper(ref)
    IN  col_letter_to_index(IF m # <<>> THEN m ELSE <<65>>)

\* sorted(row_cells, key=...): Python's sort is stable, so a cell goes
\* after every cell already placed whose key is not greater.
RECURSIVE InsertByKey(_, _)
InsertByKey(sorted, x) ==
    IF sorted = <<>> THEN <<x>>
    ELSE IF CellSortKey(Head(sorted)) <= CellSortKey(x)
         THEN <<Head(sorted)>> \o InsertByKey(Tail(sorted), x)
         ELSE <<x>> \o sorted

RECURSIVE SortedFrom(_, _, _)
SortedFrom(seq, i, acc) ==
    IF i > Len(seq) THEN acc
    ELSE SortedFrom(seq, i + 1, InsertByKey(acc, seq[i]))

\* The cells of the header row, sorted as lines 82-89 sort them.
sorted_cells(row_cells) == SortedFrom(row_cells, 1, <<>>)

(***************************************************************************)
(* parse_shared_strings.  The part xl/sharedStrings.xml is                 *)
(* [present, items]: items are the si elements in document order, each     *)
(* the texts of its t elements in document order, "" for a t without text. *)
(***************************************************************************)
\* The first t element alone.
join_first(parts) == IF parts = <<>> THEN "" ELSE parts[1]

\* "".join(parts), line 47.
RECURSIVE join(_)
join(parts) == IF parts = <<>> THEN "" ELSE join(SubSeq(parts, 1, Len(parts) - 1)) \o parts[Len(parts)]

\* Lines 42-47 for one si element: the texts of all its t elements, joined.
si_text(si) == join(si)

\* Lines 39-48.
parse_shared_strings(part) ==
    IF ~part.present THEN <<>>
    ELSE [i \in 1..Len(part.items) |-> si_text(part.items[i])]

(***************************************************************************)
(* decode_cell                                                             *)
(***************************************************************************)
\* strings[idx] as Python indexes a list: 0-based, a negative idx
\* counting from the end.
PyIndex(list, idx) ==
    IF idx >= 0 THEN list[idx + 1] ELSE list[Len(list) + idx + 1]

\* Line 56 raises IndexError where the list has no such position: an
\* index below -len(shared_strings) passes the test idx < len(...).
decode_cell_raises(cell, strings) ==
    cell.t = "s" /\ cell.hasV /\ cell.v < -Len(strings)

\* What decode_cell returns when it returns.
decode_cell(cell, strings) ==
    IF cell.t = "s" /\ cell.hasV
    THEN IF cell.v < Len(strings) THEN PyIndex(strings, cell.v) ELSE ""
    ELSE IF cell.t = "inlineStr"
         THEN IF cell.hasIs THEN cell.is ELSE ""
         ELSE IF cell.hasV THEN cell.v ELSE ""

(***************************************************************************)
(* parse_sheet_meta: the event loop of lines 74-93, one event at a time.   *)
(* An event is [event, tag, elem]; the events of a cell's own elements     *)
(* change nothing in the loop and are left out of the stream: a row's      *)
(* cells are complete when its end event arrives.                          *)
(***************************************************************************)
NoElem == [r |-> 0, cells |-> <<>>]

Ev(event, tag, elem) == [event |-> event, tag |-> tag, elem |-> elem]

RECURSIVE RowEvents(_, _)
RowEvents(rows, i) ==
    IF i > Len(rows) THEN <<>>
    ELSE <<Ev("start", "row", rows[i]), Ev("end", "row", rows[i])>>
         \o RowEvents(rows, i + 1)

\* What ET.iterparse(fh, events=("start", "end")) yields for a worksheet.
Events(doc) ==
    <<Ev("start", "worksheet", NoElem)>>
    \o (IF ~doc.hasDim THEN <<>>
        ELSE <<Ev("start", "dimension", NoElem), Ev("end", "dimension", NoElem)>>)
    \o <<Ev("start", "sheetData", NoElem)>>
    \o RowEvents(doc.rows, 1)
    \o <<Ev("end", "sheetData", NoElem), Ev("end", "worksheet", NoElem)>>

\* The locals of parse_sheet_meta at line 72.
ScanStart ==
    [headers |-> <<>>, max_row |-> 1, dimension_ref |-> NoAttr, broke |-> FALSE,
     err |-> "none"]

Max(a, b) == IF a >= b THEN a ELSE b

\* int(elem.attrib.get("r", len(headers) + 1)), line 79.
RowIndex(st, elem) == IF elem.r # 0 THEN elem.r ELSE Len(st.headers) + 1

HeaderTexts(cells, strings) ==
    [i \in 1..Len(cells) |-> decode_cell(cells[i], strings)]

\* One pass of the loop body (lines 75-93) on event e of worksheet doc.
ScanEvent(st, e, doc, strings) ==
    LET st1 == IF e.event = "start" /\ e.tag = "dimension"
               THEN [st EXCEPT !.dimension_ref = doc.dim]
               ELSE st
    IN  IF e.event = "end" /\ e.tag = "row"
        THEN LET r_idx  == RowIndex(st1, e.elem)
                 cells  == sorted_cells(e.elem.cells)
                 raises == r_idx = 1 /\ \E i \in 1..Len(cells) :
                                           decode_cell_raises(cells[i], strings)
                 st2    == IF r_idx = 1
                           THEN [st1 EXCEPT !.headers = HeaderTexts(cells, strings)]
                           ELSE st1
             IN  IF raises
                 THEN [st1 EXCEPT !.err = "IndexError"]
                 ELSE [st2 EXCEPT !.max_row = Max(st2.max_row, r_idx),
                                  !.broke = (r_idx >= 2)]
        ELSE st1

\* dimension_ref.split(":")[1] if ":" in dimension_ref else dimension_ref
RECURSIVE IndexOfFrom(_, _, _)
IndexOfFrom(t, c, i) ==
    IF i > Len(t) THEN 0 ELSE IF t[i] = c THEN i ELSE IndexOfFrom(t, c, i + 1)

EndRef(ref) ==
    LET i == IndexOfFrom(ref, 58, 1)
    IN  IF i = 0 THEN ref
        ELSE LET rest == SubSeq(ref, i + 1, Len(ref))
                 j    == IndexOfFrom(rest, 58, 1)
             IN  IF j = 0 THEN rest ELSE SubSeq(rest, 1, j - 1)

\* Lines 94-101: the dimension's end cell, else the header length.
ScanResult(st) ==
    LET ref     == st.dimension_ref
        hasRef  == ref # NoAttr /\ ref # <<>>
        end_ref == IF hasRef THEN EndRef(ref) ELSE <<>>
        letters == UpperRun(end_ref, 1)
        digits  == DigitRun(end_ref, Len(letters) + 1)
        m       == hasRef /\ letters # <<>> /\ digits # <<>>
        col     == IF m THEN letters
                   ELSE IF st.headers # <<>> THEN col_index_to_letter(Len(st.headers))
                   ELSE <<>>
    IN  [err            |-> st.err,
         headers        |-> st.headers,
         max_row        |-> IF m THEN IntOf(digits) ELSE st.max_row,
         max_col_letter |-> IF col # <<>> THEN col ELSE <<65>>]

\* parse_sheet_meta as a function of the worksheet: the loop run to its
\* break or to the end of the stream, then lines 94-101.  When err is not
\* "none" the call raised it and returned nothing.
RECURSIVE ScanLoop(_, _, _, _, _)
ScanLoop(st, events, i, doc, strings) ==
    IF i > Len(events) \/ st.broke \/ st.err # "none" THEN st
    ELSE ScanLoop(ScanEvent(st, events[i], doc, strings),
                  events, i + 1, doc, strings)

parse_sheet_meta(doc, strings) ==
    ScanResult(ScanLoop(ScanStart, Events(doc), 1, doc, strings))

(***************************************************************************)
(* build_row_xml, write_table_sheet, write_source_sheet and the data       *)
(* generators.  A written worksheet is [complete, dimension, rows]: the    *)
(* dimension is <<last column letters, row count>> ("A1:" is fixed), a row *)
(* is [r, cells] and a cell is [ref, num, val].  A value drawn from the    *)
(* seeded generator is a text naming the draw.                             *)
(***************************************************************************)
Min(a, b) == IF a <= b THEN a ELSE b

\* zip(col_letters, values, num_flags): as long as the shortest.
build_row_xml(row_idx, values, num_flags, col_letters) ==
    [r     |-> row_idx,
     cells |-> [k \in 1..Min(Len(col_letters), Min(Len(values), Len(num_flags))) |->
                   [ref |-> col_letters[k] \o Digits(row_idx),
                    num |-> num_flags[k],
                    val |-> values[k]]]]

\* None, which is no text.
None == <<0>>

\* str(val) of a text or of None ("None").
Str(val) == IF val = None THEN <<78, 111, 110, 101>> ELSE val

\* data.replace(ch, by)
RECURSIVE Replace(_, _, _)
Replace(text, ch, by) ==
    IF text = <<>> THEN <<>>
    ELSE (IF Head(text) = ch THEN by ELSE <<Head(text)>>) \o Replace(Tail(text), ch, by)

\* An escape that replaces "&" after "<" and ">".
escape_amp_last(text) ==
    Replace(Replace(Replace(text, 62, <<38, 103, 116, 59>>),
                    60, <<38, 108, 116, 59>>),
            38, <<38, 97, 109, 112, 59>>)

\* xml.sax.saxutils.escape(data) without entities: "&" becomes "&amp;",
\* then ">" becomes "&gt;", then "<" becomes "&lt;"; nothing else changes.
escape(text) ==
    Replace(Replace(Replace(text, 38, <<38, 97, 109, 112, 59>>),
                    62, <<38, 103, 116, 59>>),
            60, <<38, 108, 116, 59>>)

\* The characters lines 110-114 write for a value: between <v> and </v>
\* for a numeric column, between <t> and </t> otherwise.
cell_text(val, is_num) ==
    IF is_num THEN Str(val)
    ELSE escape(IF val # None THEN Str(val) ELSE <<>>)

\* The column letters counted down from the last column.
ColLettersDescending(headers) ==
    [i \in 1..Len(headers) |-> col_index_to_letter(Len(headers) + 1 - i)]

\* Line 311 / 338: col_letters, "A", "B", ... for the header's columns.
ColLetters(headers) == [i \in 1..Len(headers) |-> col_index_to_letter(i)]

AllText(headers) == [i \in 1..Len(headers) |-> FALSE]

\* A file nothing was written to.
NoFile == [complete |-> FALSE, dimension |-> <<>>, rows |-> <<>>]

\* The dictionaries handed to build_source_row, all empty.
NoDicts == [brand_rows |-> <<>>, category_rows |-> <<>>, week_rows |-> <<>>]

\* What the file holds when col_letters[-1] raises IndexError at line 320
\* or 345: the XML declaration and the root's start tag.
PrologOnly == [complete |-> FALSE, dimension |-> <<>>, rows |-> <<>>]

\* write_table_sheet: [err, content], content being what the file holds
\* when the call ends.
write_table_sheet(headers, rows, num_flags) ==
    LET col_letters == ColLetters(headers)
        total_rows  == 1 + Len(rows)
    IN  IF col_letters = <<>>
        THEN [err |-> "IndexError", content |-> PrologOnly]
        ELSE [err |-> "none",
              content |->
                [complete  |-> TRUE,
                 dimension |-> <<col_letters[Len(col_letters)], total_rows>>,
                 rows      |-> <<build_row_xml(1, headers, AllText(headers), col_letters)>>
                               \o [i \in 1..Len(rows) |->
                                      build_row_xml(i + 1, rows[i], num_flags, col_letters)]]]

\* make_week_rows, make_brand_rows, make_category_rows: count rows.
make_week_rows(count) ==
    [i \in 1..count |-> [Time |-> "Week Ending " \o ToString(i), Week |-> ToString(i)]]

make_brand_rows(count) ==
    [i \in 1..count |-> [Brand |-> "BRAND " \o ToString(i), Name |-> "Brand " \o ToString(i)]]

\* random.choice(brands) raises IndexError on an empty list (line 222).
make_category_rows(count, brands) ==
    IF count > 0 /\ brands = <<>>
    THEN [err |-> "IndexError", rows |-> <<>>]
    ELSE [err |-> "none",
          rows |-> [i \in 1..count |->
                      [Product     |-> "Product " \o ToString(i),
                       Category    |-> "Category " \o ToString(i),
                       Subcategory |-> "Subcategory " \o ToString(i)]]]

\* The flags of lines 388-423, 34 of them.
source_num_flags ==
    <<FALSE, FALSE, FALSE, FALSE, FALSE,
      FALSE, FALSE, TRUE, TRUE, FALSE,
      FALSE, TRUE, FALSE, TRUE, FALSE,
      FALSE, FALSE, FALSE, TRUE, TRUE, TRUE,
      TRUE, TRUE, TRUE, TRUE, TRUE,
      TRUE, TRUE, TRUE, TRUE, FALSE,
      FALSE, FALSE, FALSE>>

\* build_source_row: 33 values (lines 271-305); random.choice raises
\* IndexError when one of the three dictionaries is empty.
build_source_row(brand_rows, category_rows, week_rows, n) ==
    IF brand_rows = <<>> \/ category_rows = <<>> \/ week_rows = <<>>
    THEN [err |-> "IndexError", row |-> <<>>]
    ELSE [err |-> "none",
          row |-> [k \in 1..33 |-> "row " \o ToString(n) \o " value " \o ToString(k)]]

write_source_sheet(headers, num_flags, row_count, brand_rows, category_rows, week_rows) ==
    LET col_letters == ColLetters(headers)
        header_row  == build_row_xml(1, headers, AllText(headers), col_letters)
        gen(idx)    == build_source_row(brand_rows, category_rows, week_rows, idx)
    IN  IF col_letters = <<>>
        THEN [err |-> "IndexError", content |-> PrologOnly]
        ELSE IF row_count >= 2 /\ gen(2).err # "none"
        THEN [err |-> gen(2).err,
              content |-> [complete  |-> FALSE,
                           dimension |-> <<col_letters[Len(col_letters)], row_count>>,
                           rows      |-> <<header_row>>]]
        ELSE [err |-> "none",
              content |->
                [complete  |-> TRUE,
                 dimension |-> <<col_letters[Len(col_letters)], row_count>>,
                 rows      |-> <<header_row>>
                               \o [i \in 1..Max(row_count - 1, 0) |->
                                      build_row_xml(i + 1, gen(i + 1).row,
                                                    num_flags, col_letters)]]]

(***************************************************************************)
(* Paths, archives and the workbook's parts.  An archive is                *)
(* [kind, members]: kind "absent" (no such file), "garbage" (not a zip     *)
(* file) or "zip"; a member is [name, data].  A relationship target is a   *)
(* sequence of path segments, "/xl/worksheets/sheet1.xml" being            *)
(* <<"", "xl", "worksheets", "sheet1.xml">>.                               *)
(***************************************************************************)
\* Path("Salida") / "00. SM-SourceOfTruth.xlsx"
src_path == [parent |-> "Salida", stem |-> "00. SM-SourceOfTruth", suffix |-> ".xlsx"]

\* src_path.with_name(src_path.stem + "_fake.xlsx") with the suffix left
\* out of the new name's stem: the source's own name.
dst_path_same == [parent |-> src_path.parent, stem |-> src_path.stem, suffix |-> ".xlsx"]

\* src_path.with_name(src_path.stem + "_fake.xlsx")
dst_path == [parent |-> src_path.parent, stem |-> src_path.stem \o "_fake", suffix |-> ".xlsx"]

PathText(p) == p.parent \o "/" \o p.stem \o p.suffix

RECURSIVE LStrip(_)
LStrip(segs) == IF segs # <<>> /\ Head(segs) = "" THEN LStrip(Tail(segs)) ELSE segs

RECURSIVE Join(_)
Join(segs) ==
    IF segs = <<>> THEN ""
    ELSE IF Len(segs) = 1 THEN segs[1]
    ELSE segs[1] \o "/" \o Join(Tail(segs))

\* Lines 369-370: the member a relationship target names.
SheetPath(rel_target) ==
    LET target == LStrip(rel_target)
    IN  IF Len(target) > 1 /\ target[1] = "xl"
        THEN Join(target)
        ELSE "xl/" \o Join(target)

Names(archive) == [i \in 1..Len(archive.members) |-> archive.members[i].name]

NameSet(archive) == {archive.members[i].name : i \in 1..Len(archive.members)}

\* zf.read(name): the data of the member called name.
MemberData(archive, name) ==
    LET i == CHOOSE k \in 1..Len(archive.members) : archive.members[k].name = name
    IN  archive.members[i].data

(***************************************************************************)
(* The parts of the model that a specification leaves at rest.             *)
(***************************************************************************)
EmptySheet == [hasDim |-> FALSE, dim |-> NoAttr, rows |-> <<>>]

EmptyMap == [x \in {} |-> ""]

NoData ==
    [week_data |-> <<>>, brand_data |-> <<>>, category_data |-> <<>>,
     source_headers |-> <<>>, source_row_count |-> 0]

NoArchive == [kind |-> "absent", members |-> <<>>]

MainIdle ==
    /\ pc = "idle"
    /\ err = "none"
    /\ failedAt = "nowhere"
    /\ fs = [q \in {PathText(src_path), PathText(dst_path)} |-> NoArchive]
    /\ fs0 = fs
    /\ tmpDir = FALSE
    /\ tmpFiles = EmptyMap
    /\ tmp0 = [dir |-> FALSE, files |-> EmptyMap]
    /\ shared_strings = <<>>
    /\ rel_map = EmptyMap
    /\ sheets = <<>>
    /\ sheetIdx = 0
    /\ sheet_info = EmptyMap
    /\ data = NoData
    /\ replacements = EmptyMap
    /\ written = EmptyMap
    /\ copyIdx = 0

ScanIdle ==
    /\ sPc = "idle"
    /\ sDoc = EmptySheet
    /\ sPos = 0
    /\ sSt = ScanStart
    /\ sRows = 0
    /\ sHdrRows = <<>>
    /\ sRet = ScanResult(ScanStart)

SynthIdle ==
    /\ wPc = "idle"
    /\ wMode = "table"
    /\ wHeaders = <<>>
    /\ wFlags = <<>>
    /\ wRows = <<>>
    /\ wRowCount = 0
    /\ wDicts = NoDicts
    /\ wFile = NoFile
    /\ wBytes = FALSE
    /\ wIdx = 0
    /\ wHeld = <<>>
    /\ wCalls = <<>>
    /\ wErr = "none"

StringsIdle ==
    /\ tPc = "idle"
    /\ tPart = [present |-> FALSE, items |-> <<>>]
    /\ tPos = 0
    /\ tOut = <<>>

UnitIdle == SynthIdle /\ StringsIdle

(***************************************************************************)
(* The address arithmetic as a state machine: either an index is encoded   *)
(* and decoded again, or a text is handed to col_letter_to_index.          *)
(***************************************************************************)
AddrIdle ==
    /\ aPc = "idle"
    /\ aIdx = 0
    /\ aLetter = <<>>
    /\ aOut = 0
    /\ aErr = "none"

InitAddr ==
    /\ ScanIdle
    /\ MainIdle
    /\ UnitIdle
    /\ aOut = 0
    /\ aErr = "none"
    /\ \/ /\ aPc = "start"
          /\ aIdx \in 1..MaxCol
          /\ aLetter = <<>>
       \/ /\ aPc = "input"
          /\ aIdx = 0
          /\ aLetter \in TextsUpTo(LetterAlphabet, MaxLetters)

Encode ==
    /\ aPc = "start"
    /\ aLetter' = col_index_to_letter(aIdx)
    /\ aPc' = "encoded"
    /\ UNCHANGED <<aIdx, aOut, aErr>>
    /\ UNCHANGED scanVars
    /\ UNCHANGED mainVars
    /\ UNCHANGED unitVars

Decode ==
    /\ aPc = "encoded"
    /\ aOut' = col_letter_to_index(aLetter)
    /\ aPc' = "decoded"
    /\ UNCHANGED <<aIdx, aLetter, aErr>>
    /\ UNCHANGED scanVars
    /\ UNCHANGED mainVars
    /\ UNCHANGED unitVars

\* col_letter_to_index on a caller's text: the loop has no raise, so the
\* call always returns.
ParseLetters ==
    /\ aPc = "input"
    /\ aOut' = col_letter_to_index(aLetter)
    /\ aPc' = "returned"
    /\ UNCHANGED <<aIdx, aLetter, aErr>>
    /\ UNCHANGED scanVars
    /\ UNCHANGED mainVars
    /\ UNCHANGED unitVars

NextAddr == Encode \/ Decode \/ ParseLetters

SpecAddr == InitAddr /\ [][NextAddr]_vars


(***************************************************************************)
(* The worksheets handed to the scanner.  The first row's cells are any    *)
(* arrangement of distinct columns among A, B, Z and AA; the text of a     *)
(* cell names its place in the document ("t1" is the first cell written),  *)
(* so the order of the returned headers shows which order was followed.    *)
(***************************************************************************)
\* "A", "B", "Z", "AA"
HeaderCols == {<<65>>, <<66>>, <<90>>, <<65, 65>>}

InlineCell(ref, text) ==
    [r |-> ref, t |-> "inlineStr", hasV |-> FALSE, v |-> 0, hasIs |-> TRUE, is |-> text]

\* All arrangements of at most n distinct members of S.
RECURSIVE Arrangements(_, _)
Arrangements(S, n) ==
    IF n = 0 THEN {<<>>}
    ELSE LET shorter == Arrangements(S, n - 1)
         IN  shorter \cup
             {Append(q, c) : q \in {u \in shorter : Len(u) = n - 1},
                             c \in S}

Distinct(q) == \A i, j \in 1..Len(q) : i # j => q[i] # q[j]

\* The cells of row number rowNo whose columns, in document order, are cols.
CellsOf(cols, rowNo, prefix) ==
    [i \in 1..Len(cols) |->
        InlineCell(cols[i] \o Digits(rowNo), prefix \o ToString(i))]

HeaderColumnOrders == {q \in Arrangements(HeaderCols, MaxCells) : Distinct(q)}

\* A shared-string cell: its v child holds an index into the table.
SharedCell(ref, idx) ==
    [r |-> ref, t |-> "s", hasV |-> TRUE, v |-> idx, hasIs |-> FALSE, is |-> ""]

\* The columns of a row after the first: none, "A", or "B" then "A".
DataColumnOrders == {<<>>, <<<<65>>>>, <<<<66>>, <<65>>>>}

\* A row element at place i of the sheet; indexed rows carry r = i.
RowAt(i, cols, indexed) ==
    [r     |-> IF indexed THEN i ELSE 0,
     cells |-> CellsOf(cols, i, IF i = 1 THEN "t" ELSE "d")]

\* The row sequences: a first row, then up to MaxRows - 1 further rows.
RECURSIVE DataTails(_)
DataTails(n) ==
    IF n = 0 THEN {<<>>}
    ELSE LET shorter == DataTails(n - 1)
         IN  shorter \cup {Append(q, c) : q \in {u \in shorter : Len(u) = n - 1},
                                          c \in DataColumnOrders}

ColumnLayouts ==
    {<<>>} \cup {<<h>> \o tl : h \in HeaderColumnOrders, tl \in DataTails(MaxRows - 1)}

RowsOf(layout, indexed) == [i \in 1..Len(layout) |-> RowAt(i, layout[i], indexed)]

\* The si elements of the workbook's shared-string part: the first holds
\* two runs.
SharedStringItems == <<<<"s", "0">>, <<"s1">>>>

\* The shared-string table of the workbook the sheets belong to.
SharedStrings == parse_shared_strings([present |-> TRUE, items |-> SharedStringItems])

\* The integers a shared-string cell's v child holds: in range of the
\* table, at and above its length, and below zero.
SharedIndexes == (0 - Len(SharedStrings) - 1)..(Len(SharedStrings) + 1)

\* "A1:C5"
DimRefs == {<<65, 49, 58, 67, 53>>}

\* The r attributes of a cell that re.match(r"([A-Z]+)", ...) does not
\* match or that the cell does not carry: none, "b1" and "1".
MalformedRefs == {NoAttr, <<98, 49>>, <<49>>}

\* A header row of well-formed cells with one more cell, of reference ref,
\* put at place p of the document; "t1" is again the first cell written.
HeaderRowWith(cols, p, ref) ==
    LET refs == [k \in 1..Len(cols) |-> cols[k] \o Digits(1)]
        all  == SubSeq(refs, 1, p - 1) \o <<ref>> \o SubSeq(refs, p, Len(refs))
    IN  [i \in 1..Len(all) |-> InlineCell(all[i], "t" \o ToString(i))]

\* Sheets of one row: two well-formed header cells and a malformed one.
MalformedHeaderSheets ==
    {[hasDim |-> FALSE, dim |-> NoAttr,
      rows |-> <<[r |-> 1, cells |-> HeaderRowWith(q, p, m)]>>] :
        q \in {u \in HeaderColumnOrders : Len(u) = 2}, p \in 1..3, m \in MalformedRefs}

ScanInputs ==
    {[hasDim |-> FALSE, dim |-> NoAttr, rows |-> RowsOf(layout, indexed)] :
        layout \in ColumnLayouts, indexed \in BOOLEAN}
    \cup
    {[hasDim |-> TRUE, dim |-> d, rows |-> RowsOf(layout, indexed)] :
        layout \in ColumnLayouts, indexed \in BOOLEAN, d \in DimRefs}
    \cup
    {[hasDim |-> FALSE, dim |-> NoAttr,
      rows |-> <<[r |-> 1, cells |-> <<SharedCell(<<65, 49>>, v)>>]>>] :
        v \in SharedIndexes}
    \cup MalformedHeaderSheets


(***************************************************************************)
(* parse_sheet_meta as a state machine: one parse event per step.          *)
(***************************************************************************)
InitScan ==
    /\ AddrIdle
    /\ MainIdle
    /\ UnitIdle
    /\ sPc = "loop"
    /\ sDoc \in ScanInputs
    /\ sPos = 0
    /\ sSt = ScanStart
    /\ sRows = 0
    /\ sHdrRows = <<>>
    /\ sRet = ScanResult(ScanStart)

\* for event, elem in context: one pass of the body, lines 74-93.
ScanNext ==
    /\ sPc = "loop"
    /\ sPos < Len(Events(sDoc))
    /\ LET e     == Events(sDoc)[sPos + 1]
           isRow == e.event = "end" /\ e.tag = "row"
           st    == ScanEvent(sSt, e, sDoc, SharedStrings)
       IN  /\ sSt' = st
           /\ sPos' = sPos + 1
           /\ sRows' = IF isRow THEN sRows + 1 ELSE sRows
           /\ sHdrRows' = IF isRow /\ RowIndex(sSt, e.elem) = 1
                          THEN Append(sHdrRows, sRows + 1)
                          ELSE sHdrRows
           /\ sPc' = IF st.err # "none" THEN "raised"
                     ELSE IF st.broke THEN "after" ELSE "loop"
    /\ UNCHANGED <<sDoc, sRet>>
    /\ UNCHANGED addrVars
    /\ UNCHANGED mainVars
    /\ UNCHANGED unitVars

\* The stream ends without a break.
ScanExhausted ==
    /\ sPc = "loop"
    /\ sPos = Len(Events(sDoc))
    /\ sPc' = "after"
    /\ UNCHANGED <<sDoc, sPos, sSt, sRows, sHdrRows, sRet>>
    /\ UNCHANGED addrVars
    /\ UNCHANGED mainVars
    /\ UNCHANGED unitVars

\* Lines 94-101.
ScanReturn ==
    /\ sPc = "after"
    /\ sRet' = ScanResult(sSt)
    /\ sPc' = "returned"
    /\ UNCHANGED <<sDoc, sPos, sSt, sRows, sHdrRows>>
    /\ UNCHANGED addrVars
    /\ UNCHANGED mainVars
    /\ UNCHANGED unitVars

NextScan == ScanNext \/ ScanExhausted \/ ScanReturn

SpecScan == InitScan /\ [][NextScan]_vars


(***************************************************************************)
(* The sheets handed to the writers.  Header texts are "H1", "H2", ...; a  *)
(* value of a data row is "v" or None.  One family of calls writes a       *)
(* header of a single text over the characters & < > " ' l t ; and no      *)
(* data row, which is how a text reaches build_row_xml's escaping.         *)
(***************************************************************************)
\* The largest number of header columns, and of rows handed to
\* write_table_sheet.
MaxHeader == 3
MaxData == 2

\* The largest row_count handed to write_source_sheet.
MaxRowCount == 3

\* The longest text of the escaping family.
MaxText == 3

\* & < > " ' l t ;
TextAlphabet == {38, 60, 62, 34, 39, 108, 116, 59}

HeaderTexts123(n) == [k \in 1..n |-> <<72, 48 + k>>]

FlagSeqs == UNION {[1..f -> BOOLEAN] : f \in 0..MaxHeader}

\* n rows of v values each, the first value None when nulls.
DataRows(n, v, nulls) ==
    [i \in 1..n |-> [j \in 1..v |-> IF nulls /\ j = 1 THEN None ELSE <<118>>]]

FilledDicts ==
    [brand_rows    |-> make_brand_rows(1),
     category_rows |-> make_category_rows(1, make_brand_rows(1)).rows,
     week_rows     |-> make_week_rows(1)]

TableCalls ==
    {[mode |-> "table", headers |-> HeaderTexts123(h), flags |-> f,
      rows |-> DataRows(n, v, nulls), row_count |-> 0, dicts |-> NoDicts] :
        h \in 0..MaxHeader, f \in FlagSeqs, n \in 0..MaxData,
        v \in 0..MaxHeader, nulls \in BOOLEAN}

EscapeCalls ==
    {[mode |-> "table", headers |-> <<x>>, flags |-> <<FALSE>>,
      rows |-> <<>>, row_count |-> 0, dicts |-> NoDicts] :
        x \in TextsUpTo(TextAlphabet, MaxText)}

SourceCalls ==
    {[mode |-> "source", headers |-> HeaderTexts123(h), flags |-> f,
      rows |-> <<>>, row_count |-> n, dicts |-> d] :
        h \in 0..MaxHeader, f \in FlagSeqs \cup {source_num_flags},
        n \in 0..MaxRowCount, d \in {FilledDicts, NoDicts}}

(***************************************************************************)
(* write_table_sheet and write_source_sheet as a state machine: one step   *)
(* per write to the file and per call of build_source_row.                 *)
(***************************************************************************)
InitWrite ==
    /\ AddrIdle
    /\ ScanIdle
    /\ MainIdle
    /\ StringsIdle
    /\ wPc = "open"
    /\ \E c \in TableCalls \cup EscapeCalls \cup SourceCalls :
          /\ wMode = c.mode
          /\ wHeaders = c.headers
          /\ wFlags = c.flags
          /\ wRows = c.rows
          /\ wRowCount = c.row_count
          /\ wDicts = c.dicts
    /\ wFile = NoFile
    /\ wBytes = FALSE
    /\ wIdx = 0
    /\ wHeld = <<>>
    /\ wCalls = <<>>
    /\ wErr = "none"

\* The rest of the model, which the writers leave alone.
WriteFrame ==
    /\ UNCHANGED <<wMode, wHeaders, wFlags, wRows, wRowCount, wDicts>>
    /\ UNCHANGED <<addrVars, scanVars, mainVars, stringVars>>

\* range(1, row_count + 1): the header's index included.
source_row_range_from_one(row_count) == [first |-> 1, last |-> row_count]

\* range(2, row_count + 1), line 350.
source_row_range(row_count) == [first |-> 2, last |-> row_count]

\* Lines 314-318 / 339-343: the file is opened (created, emptied) and the
\* XML declaration and the worksheet start tag are written.
WOpen ==
    /\ wPc = "open"
    /\ wFile' = PrologOnly
    /\ wBytes' = TRUE
    /\ wPc' = "dimension"
    /\ UNCHANGED <<wIdx, wHeld, wCalls, wErr>>
    /\ WriteFrame

\* Lines 319-321 / 344-346: col_letters[-1] raises IndexError when there
\* is no header; the row count written is 1 + len(rows), or row_count.
WDimension ==
    /\ wPc = "dimension"
    /\ LET col_letters == ColLetters(wHeaders)
           total == IF wMode = "table" THEN 1 + Len(wRows) ELSE wRowCount
       IN  IF col_letters = <<>>
           THEN /\ wPc' = "raised"
                /\ wErr' = "IndexError"
                /\ wFile' = wFile
           ELSE /\ wPc' = "header"
                /\ wErr' = wErr
                /\ wFile' = [wFile EXCEPT !.dimension =
                                <<col_letters[Len(col_letters)], total>>]
    /\ UNCHANGED <<wBytes, wIdx, wHeld, wCalls>>
    /\ WriteFrame

\* Lines 322-323 / 347-348: <sheetData> and the header row.
WHeader ==
    /\ wPc = "header"
    /\ wFile' = [wFile EXCEPT !.rows =
                    <<build_row_xml(1, wHeaders, AllText(wHeaders), ColLetters(wHeaders))>>]
    /\ wIdx' = IF wMode = "table" THEN 2 ELSE source_row_range(wRowCount).first
    /\ wPc' = "rows"
    /\ UNCHANGED <<wBytes, wHeld, wCalls, wErr>>
    /\ WriteFrame

\* Lines 324-325: for idx, row in enumerate(rows, start=2).
WTableRow ==
    /\ wPc = "rows"
    /\ wMode = "table"
    /\ wIdx <= 1 + Len(wRows)
    /\ wFile' = [wFile EXCEPT !.rows =
                    Append(@, build_row_xml(wIdx, wRows[wIdx - 1], wFlags,
                                            ColLetters(wHeaders)))]
    /\ wIdx' = wIdx + 1
    /\ UNCHANGED <<wPc, wBytes, wHeld, wCalls, wErr>>
    /\ WriteFrame

\* Line 351: row = build_source_row(...); the name row is bound to the
\* new row, the row it was bound to is released.
WGenerate ==
    /\ wPc = "rows"
    /\ wMode = "source"
    /\ wIdx <= source_row_range(wRowCount).last
    /\ LET gen == build_source_row(wDicts.brand_rows, wDicts.category_rows,
                                   wDicts.week_rows, wIdx)
       IN  /\ wCalls' = Append(wCalls, wIdx)
           /\ IF gen.err # "none"
              THEN /\ wPc' = "raised"
                   /\ wErr' = gen.err
                   /\ wHeld' = wHeld
              ELSE /\ wPc' = "generated"
                   /\ wErr' = wErr
                   /\ wHeld' = <<gen.row>>
    /\ UNCHANGED <<wFile, wBytes, wIdx>>
    /\ WriteFrame

\* Line 352: f.write(build_row_xml(idx, row, num_flags, col_letters)).
WWriteRow ==
    /\ wPc = "generated"
    /\ wFile' = [wFile EXCEPT !.rows =
                    Append(@, build_row_xml(wIdx, wHeld[1], wFlags,
                                            ColLetters(wHeaders)))]
    /\ wIdx' = wIdx + 1
    /\ wPc' = "rows"
    /\ UNCHANGED <<wBytes, wHeld, wCalls, wErr>>
    /\ WriteFrame

\* Lines 326 / 353: the loop is over, the closing tags are written and
\* the call returns, which releases its locals.
WClose ==
    /\ wPc = "rows"
    /\ wIdx > (IF wMode = "table" THEN 1 + Len(wRows)
               ELSE source_row_range(wRowCount).last)
    /\ wFile' = [wFile EXCEPT !.complete = TRUE]
    /\ wHeld' = <<>>
    /\ wPc' = "done"
    /\ UNCHANGED <<wBytes, wIdx, wCalls, wErr>>
    /\ WriteFrame

NextWrite == WOpen \/ WDimension \/ WHeader \/ WTableRow \/ WGenerate \/ WWriteRow \/ WClose

SpecWrite == InitWrite /\ [][NextWrite]_vars

\* The state machine writes what write_table_sheet and write_source_sheet,
\* taken as functions of their arguments, are said to write.
WriterAgrees ==
    wPc \in {"done", "raised"} =>
        LET r == IF wMode = "table"
                 THEN write_table_sheet(wHeaders, wRows, wFlags)
                 ELSE write_source_sheet(wHeaders, wFlags, wRowCount, wDicts.brand_rows,
                                         wDicts.category_rows, wDicts.week_rows)
        IN  r.err = wErr /\ r.content = wFile

(***************************************************************************)
(* parse_shared_strings as a state machine: one si element per step.  The  *)
(* parts handed to it hold up to MaxItems si elements of up to MaxRuns t   *)
(* elements each, with the texts "Foo", "Bar" and none.                    *)
(***************************************************************************)
MaxItems == 2
MaxRuns == 2

RunTexts == {"", "Foo", "Bar"}

StringParts ==
    {[present |-> FALSE, items |-> <<>>]} \cup
    {[present |-> TRUE, items |-> q] :
        q \in TextsUpTo(TextsUpTo(RunTexts, MaxRuns), MaxItems)}

InitStrings ==
    /\ AddrIdle
    /\ ScanIdle
    /\ MainIdle
    /\ SynthIdle
    /\ tPc = "start"
    /\ tPart \in StringParts
    /\ tPos = 0
    /\ tOut = <<>>

StringsFrame == UNCHANGED <<addrVars, scanVars, mainVars, synthVars>>

\* Lines 39-42: without the part the table is empty; with it, the part is
\* parsed and the loop over its si elements starts.
TStart ==
    /\ tPc = "start"
    /\ tPc' = IF tPart.present THEN "items" ELSE "returned"
    /\ tOut' = <<>>
    /\ UNCHANGED <<tPart, tPos>>
    /\ StringsFrame

\* Lines 43-47 for the next si element.
TItem ==
    /\ tPc = "items"
    /\ tPos < Len(tPart.items)
    /\ tOut' = Append(tOut, si_text(tPart.items[tPos + 1]))
    /\ tPos' = tPos + 1
    /\ UNCHANGED <<tPc, tPart>>
    /\ StringsFrame

\* Line 48.
TReturn ==
    /\ tPc = "items"
    /\ tPos = Len(tPart.items)
    /\ tPc' = "returned"
    /\ UNCHANGED <<tPart, tPos, tOut>>
    /\ StringsFrame

NextStrings == TStart \/ TItem \/ TReturn

SpecStrings == InitStrings /\ [][NextStrings]_vars

\* The state machine returns what parse_shared_strings, taken as a
\* function of the part, returns.
StringsAgree == tPc = "returned" => tOut = parse_shared_strings(tPart)

(***************************************************************************)
(* The workbooks handed to main().  The archive holds the workbook part,   *)
(* the relationships part, the styles, the shared strings and four         *)
(* worksheet parts; the variants change the order of the members, leave    *)
(* one member out, change what the workbook and the relationships say and  *)
(* what the sheets hold.                                                   *)
(***************************************************************************)
WORKBOOK == "xl/workbook.xml"
RELS     == "xl/_rels/workbook.xml.rels"
STRINGS  == "xl/sharedStrings.xml"
STYLES   == "xl/styles.xml"

SheetPart(k) == "xl/worksheets/sheet" \o ToString(k) \o ".xml"

BaseNames ==
    <<WORKBOOK, RELS, STYLES, STRINGS, SheetPart(1), SheetPart(2), SheetPart(3), SheetPart(4)>>

\* The four sheets main() replaces, in the order it builds them.
RequestedSheets ==
    <<"Week Dictionary", "Brand Dictionary", "Category Dictionary", "Source of Truth">>

\* "A", "B", "C", ...: the first n columns, in order.
FirstCols(n) == [i \in 1..n |-> col_index_to_letter(i)]

\* A sheet of nRows rows (the header included) and nCols columns, rows
\* indexed, with its dimension element.
StdSheet(nCols, nRows) ==
    [hasDim |-> TRUE,
     dim    |-> <<65, 49, 58>> \o col_index_to_letter(nCols) \o Digits(nRows),
     rows   |-> RowsOf([i \in 1..nRows |-> IF i = 1 THEN FirstCols(nCols) ELSE <<<<65>>>>],
                       TRUE)]

\* A sheet of a header row whose dimension element ends in row 0
\* ("A1:B0"): parse_sheet_meta reports the row of the dimension.
ZeroDimSheet(nCols) ==
    [StdSheet(nCols, 1) EXCEPT !.dim = <<65, 49, 58>> \o col_index_to_letter(nCols) \o Digits(0)]

\* The largest number of rows of a worksheet of the workbook.
MaxSheetRows == 3

OrderVariants  == {"forward", "reversed"}
DropVariants   == {"none"} \cup {BaseNames[i] : i \in 1..Len(BaseNames)}
BookVariants   == {"all", "extra sheet"} \cup {RequestedSheets[i] : i \in 1..4}
RelVariants    == {"relative", "absolute", "swapped", "shared part", "no rId3"}
SheetVariants  == {"filled", "week sheet empty", "brand header only", "dictionaries header only",
                   "dimension row zero"}
DiskVariants   == {"fresh", "leftovers"}

\* xl/workbook.xml: the sheet elements, without the one named by v.
BookSheets(v) ==
    LET all == [i \in 1..4 |-> [name |-> RequestedSheets[i], rId |-> "rId" \o ToString(i)]]
    IN  IF v = "all" THEN all
        ELSE IF v = "extra sheet"
             THEN all \o <<[name |-> "Notes", rId |-> "rId9"]>>
             ELSE SelectSeq(all, LAMBDA sh : sh.name # v)

\* xl/_rels/workbook.xml.rels: the Relationship elements.
RelTarget(k, absolute) ==
    IF absolute THEN <<"", "xl", "worksheets", "sheet" \o ToString(k) \o ".xml">>
    ELSE <<"worksheets", "sheet" \o ToString(k) \o ".xml">>

BookRels(v) ==
    LET part(i) == IF v = "swapped" /\ i \in {1, 2} THEN 3 - i
                   ELSE IF v = "shared part" /\ i = 2 THEN 1
                   ELSE i
        all == [i \in 1..4 |-> [Id |-> "rId" \o ToString(i),
                                Target |-> RelTarget(part(i), v = "absolute")]]
    IN  IF v = "no rId3" THEN SelectSeq(all, LAMBDA r : r.Id # "rId3") ELSE all

\* What worksheet part k holds.
PartSheet(k, v) ==
    IF v = "dimension row zero" THEN ZeroDimSheet(IF k \in {1, 2} THEN 2 ELSE 3)
    ELSE IF k = 1 THEN (IF v = "week sheet empty" THEN EmptySheet ELSE StdSheet(2, MaxSheetRows))
    ELSE IF k = 2 THEN (IF v \in {"brand header only", "dictionaries header only"}
                        THEN StdSheet(2, 1) ELSE StdSheet(2, 2))
    ELSE IF k = 3 THEN (IF v = "dictionaries header only"
                        THEN StdSheet(3, 1) ELSE StdSheet(3, 2))
    ELSE StdSheet(3, MaxSheetRows)

PartData(name, book, rel, sheet) ==
    IF name = WORKBOOK THEN [kind |-> "workbook", sheets |-> BookSheets(book)]
    ELSE IF name = RELS THEN [kind |-> "rels", rels |-> BookRels(rel)]
    ELSE IF name = STRINGS THEN [kind |-> "strings", items |-> SharedStringItems]
    ELSE IF name = STYLES THEN [kind |-> "blob", of |-> name]
    ELSE LET k == CHOOSE i \in 1..4 : SheetPart(i) = name
         IN  [kind |-> "sheet", doc |-> PartSheet(k, sheet)]

Reverse(q) == [i \in 1..Len(q) |-> q[Len(q) + 1 - i]]

SourceArchive(order, drop, book, rel, sheet) ==
    LET kept  == SelectSeq(BaseNames, LAMBDA n : n # drop)
        names == IF order = "reversed" THEN Reverse(kept) ELSE kept
    IN  [kind    |-> "zip",
         members |-> [i \in 1..Len(names) |->
                        [name |-> names[i], data |-> PartData(names[i], book, rel, sheet)]]]

SourceArchives ==
    {[kind |-> "absent", members |-> <<>>], [kind |-> "garbage", members |-> <<>>]}
    \cup {SourceArchive(o, d, b, r, s) :
            o \in OrderVariants, d \in DropVariants, b \in BookVariants,
            r \in RelVariants, s \in SheetVariants}

\* An output archive and a temporary file left by an earlier run.
OldOutput == [kind |-> "zip", members |-> <<[name |-> STYLES, data |-> [kind |-> "blob", of |-> "old"]]>>]
OldTmpFiles == [n \in {"week.xml"} |-> PrologOnly]

InitMain ==
    /\ AddrIdle
    /\ ScanIdle
    /\ UnitIdle
    /\ pc = "open"
    /\ err = "none"
    /\ failedAt = "nowhere"
    /\ \E a \in SourceArchives, disk \in DiskVariants :
          /\ fs = [q \in {PathText(src_path), PathText(dst_path)} |->
                      IF q = PathText(src_path) THEN a
                      ELSE IF disk = "leftovers" THEN OldOutput ELSE NoArchive]
          /\ tmpDir = (disk = "leftovers")
          /\ tmpFiles = IF disk = "leftovers" THEN OldTmpFiles ELSE EmptyMap
    /\ fs0 = fs
    /\ tmp0 = [dir |-> tmpDir, files |-> tmpFiles]
    /\ shared_strings = <<>>
    /\ rel_map = EmptyMap
    /\ sheets = <<>>
    /\ sheetIdx = 0
    /\ sheet_info = EmptyMap
    /\ data = NoData
    /\ replacements = EmptyMap
    /\ written = EmptyMap
    /\ copyIdx = 0

(***************************************************************************)
(* main(), one step per statement that can fail or that writes.            *)
(***************************************************************************)
SRC == PathText(src_path)
DST == PathText(dst_path)

\* An uncaught exception ends main(): nothing after the raise runs.
Raise(e) ==
    /\ pc' = "failed"
    /\ err' = e
    /\ failedAt' = pc

\* The statement returned: main() goes on at next.
Goto(next) ==
    /\ pc' = next
    /\ UNCHANGED <<err, failedAt>>

Put(f, k, v) == [x \in DOMAIN f \cup {k} |-> IF x = k THEN v ELSE f[x]]

\* Line 363: a later Relationship with the same Id replaces an earlier one.
RelMap(rels) ==
    [id \in {rels[i].Id : i \in 1..Len(rels)} |->
        LET last == CHOOSE i \in 1..Len(rels) :
                       /\ rels[i].Id = id
                       /\ \A j \in (i + 1)..Len(rels) : rels[j].Id # id
        IN  rels[last].Target]

\* Line 360: zipfile.ZipFile(src_path, "r").
Open ==
    /\ pc = "open"
    /\ IF fs[SRC].kind = "absent" THEN Raise("FileNotFoundError")
       ELSE IF fs[SRC].kind = "garbage" THEN Raise("BadZipFile")
       ELSE Goto("strings")
    /\ UNCHANGED <<fs, fs0, tmpDir, tmpFiles, tmp0, shared_strings, rel_map, sheets,
                   sheetIdx, sheet_info, data, replacements, written, copyIdx>>
    /\ UNCHANGED <<addrVars, scanVars, unitVars>>

\* Line 361: parse_shared_strings; an absent part gives the empty table.
ParseSharedStrings ==
    /\ pc = "strings"
    /\ shared_strings' =
          parse_shared_strings(
              IF STRINGS \in NameSet(fs[SRC])
              THEN [present |-> TRUE, items |-> MemberData(fs[SRC], STRINGS).items]
              ELSE [present |-> FALSE, items |-> <<>>])
    /\ Goto("rels")
    /\ UNCHANGED <<fs, fs0, tmpDir, tmpFiles, tmp0, rel_map, sheets,
                   sheetIdx, sheet_info, data, replacements, written, copyIdx>>
    /\ UNCHANGED <<addrVars, scanVars, unitVars>>

\* Lines 362-363: zf.read raises KeyError for a member the archive lacks.
ReadRels ==
    /\ pc = "rels"
    /\ IF RELS \notin NameSet(fs[SRC])
       THEN Raise("KeyError") /\ rel_map' = rel_map
       ELSE /\ rel_map' = RelMap(MemberData(fs[SRC], RELS).rels)
            /\ Goto("workbook")
    /\ UNCHANGED <<fs, fs0, tmpDir, tmpFiles, tmp0, shared_strings, sheets,
                   sheetIdx, sheet_info, data, replacements, written, copyIdx>>
    /\ UNCHANGED <<addrVars, scanVars, unitVars>>

\* Lines 364-366 guarded the way parse_shared_strings guards line 41: a
\* missing workbook part read as a workbook without sheets.
ReadWorkbookGuarded ==
    /\ pc = "workbook"
    /\ sheets' = IF WORKBOOK \in NameSet(fs[SRC])
                 THEN MemberData(fs[SRC], WORKBOOK).sheets
                 ELSE <<>>
    /\ sheetIdx' = 1
    /\ Goto("sheets")
    /\ UNCHANGED <<fs, fs0, tmpDir, tmpFiles, tmp0, shared_strings, rel_map,
                   sheet_info, data, replacements, written, copyIdx>>
    /\ UNCHANGED <<addrVars, scanVars, unitVars>>

\* Lines 364-366.
ReadWorkbook ==
    /\ pc = "workbook"
    /\ IF WORKBOOK \notin NameSet(fs[SRC])
       THEN Raise("KeyError") /\ UNCHANGED <<sheets, sheetIdx>>
       ELSE /\ sheets' = MemberData(fs[SRC], WORKBOOK).sheets
            /\ sheetIdx' = 1
            /\ Goto("sheets")
    /\ UNCHANGED <<fs, fs0, tmpDir, tmpFiles, tmp0, shared_strings, rel_map,
                   sheet_info, data, replacements, written, copyIdx>>
    /\ UNCHANGED <<addrVars, scanVars, unitVars>>

\* Lines 367-377, one sheet element: rel_map[rId] and zf.open(sheet_path)
\* raise KeyError for an id the relationships lack and for a member the
\* archive lacks.
ScanSheet ==
    /\ pc = "sheets"
    /\ sheetIdx <= Len(sheets)
    /\ LET sheet == sheets[sheetIdx]
       IN  IF sheet.rId \notin DOMAIN rel_map
           THEN Raise("KeyError") /\ UNCHANGED <<sheet_info, sheetIdx>>
           ELSE LET sheet_path == SheetPath(rel_map[sheet.rId])
                IN  IF sheet_path \notin NameSet(fs[SRC])
                    THEN Raise("KeyError") /\ UNCHANGED <<sheet_info, sheetIdx>>
                    ELSE LET meta == parse_sheet_meta(MemberData(fs[SRC], sheet_path).doc,
                                                      shared_strings)
                         IN  IF meta.err # "none"
                             THEN Raise(meta.err) /\ UNCHANGED <<sheet_info, sheetIdx>>
                             ELSE
                             /\ sheet_info' =
                                   Put(sheet_info, sheet.name,
                                       [path           |-> sheet_path,
                                        headers        |-> meta.headers,
                                        max_row        |-> meta.max_row,
                                        max_col_letter |-> meta.max_col_letter])
                             /\ sheetIdx' = sheetIdx + 1
                             /\ UNCHANGED <<pc, err, failedAt>>
    /\ UNCHANGED <<fs, fs0, tmpDir, tmpFiles, tmp0, shared_strings, rel_map, sheets,
                   data, replacements, written, copyIdx>>
    /\ UNCHANGED <<addrVars, scanVars, unitVars>>

NoEntry == [path |-> "", headers |-> <<>>, max_row |-> 1, max_col_letter |-> <<65>>]

\* info.get(name, default) in place of info[name]: no KeyError.
SheetEntryOrDefault(info, name) ==
    [found |-> TRUE, entry |-> IF name \in DOMAIN info THEN info[name] ELSE NoEntry]

\* sheet_info[name]: the entry, or KeyError (found = FALSE).
SheetEntry(info, name) ==
    IF name \in DOMAIN info
    THEN [found |-> TRUE, entry |-> info[name]]
    ELSE [found |-> FALSE, entry |-> NoEntry]

\* Lines 380-387, after the last sheet element: sheet_info[name] raises
\* KeyError for a sheet the workbook does not list, make_category_rows
\* raises IndexError when it has rows to make and no brand to choose.
BuildDictionaries ==
    /\ pc = "sheets"
    /\ sheetIdx > Len(sheets)
    /\ LET has(n)   == SheetEntry(sheet_info, n).found
           count(n) == Max(SheetEntry(sheet_info, n).entry.max_row - 1, 0)
       IN  IF ~has("Week Dictionary") \/ ~has("Brand Dictionary")
              \/ ~has("Category Dictionary")
           THEN Raise("KeyError") /\ data' = data
           ELSE LET week_data  == make_week_rows(count("Week Dictionary"))
                    brand_data == make_brand_rows(count("Brand Dictionary"))
                    category   == make_category_rows(count("Category Dictionary"),
                                                     brand_data)
                IN  IF category.err # "none"
                    THEN Raise(category.err) /\ data' = data
                    ELSE IF ~has("Source of Truth")
                    THEN Raise("KeyError") /\ data' = data
                    ELSE /\ data' = [week_data        |-> week_data,
                                     brand_data       |-> brand_data,
                                     category_data    |-> category.rows,
                                     source_headers   |->
                                         SheetEntry(sheet_info, "Source of Truth").entry.headers,
                                     source_row_count |->
                                         SheetEntry(sheet_info, "Source of Truth").entry.max_row]
                         /\ Goto("mkdir")
    /\ UNCHANGED <<fs, fs0, tmpDir, tmpFiles, tmp0, shared_strings, rel_map, sheets,
                   sheetIdx, sheet_info, replacements, written, copyIdx>>
    /\ UNCHANGED <<addrVars, scanVars, unitVars>>

\* Lines 425-427: mkdir(exist_ok=True) keeps a directory that is there.
MakeTmpDir ==
    /\ pc = "mkdir"
    /\ tmpDir' = TRUE
    /\ replacements' = EmptyMap
    /\ Goto("week")
    /\ UNCHANGED <<fs, fs0, tmpFiles, tmp0, shared_strings, rel_map, sheets,
                   sheetIdx, sheet_info, data, written, copyIdx>>
    /\ UNCHANGED <<addrVars, scanVars, unitVars>>

\* One replacement sheet: the file is created by the write (and keeps what
\* was written when the write raises); it is registered only when the
\* write returned.
Synthesize(at, next, file, sheetName, result) ==
    /\ pc = at
    /\ tmpFiles' = Put(tmpFiles, file, result.content)
    /\ IF result.err # "none"
       THEN Raise(result.err) /\ UNCHANGED <<replacements, written>>
       ELSE /\ replacements' = Put(replacements, sheet_info[sheetName].path, file)
            /\ written' = Put(written, file, result.content)
            /\ Goto(next)
    /\ UNCHANGED <<fs, fs0, tmpDir, tmp0, shared_strings, rel_map, sheets,
                   sheetIdx, sheet_info, data, copyIdx>>
    /\ UNCHANGED <<addrVars, scanVars, unitVars>>

\* Lines 430-435.
SynthWeek ==
    Synthesize("week", "brand", "week.xml", "Week Dictionary",
        write_table_sheet(sheet_info["Week Dictionary"].headers,
                          [i \in 1..Len(data.week_data) |->
                              <<data.week_data[i].Time, data.week_data[i].Week>>],
                          <<FALSE, TRUE>>))

\* Lines 438-442.
SynthBrand ==
    Synthesize("brand", "category", "brand.xml", "Brand Dictionary",
        write_table_sheet(sheet_info["Brand Dictionary"].headers,
                          [i \in 1..Len(data.brand_data) |->
                              <<data.brand_data[i].Brand, data.brand_data[i].Name>>],
                          <<FALSE, FALSE>>))

\* Lines 445-453 followed at once by the copy of line 468, the source
\* sheet left unbuilt.
SynthCategoryThenCopy ==
    Synthesize("category", "out", "category.xml", "Category Dictionary",
        write_table_sheet(sheet_info["Category Dictionary"].headers,
                          [i \in 1..Len(data.category_data) |->
                              <<data.category_data[i].Product,
                                data.category_data[i].Category,
                                data.category_data[i].Subcategory>>],
                          <<FALSE, FALSE, FALSE>>))

\* Lines 445-453.
SynthCategory ==
    Synthesize("category", "source", "category.xml", "Category Dictionary",
        write_table_sheet(sheet_info["Category Dictionary"].headers,
                          [i \in 1..Len(data.category_data) |->
                              <<data.category_data[i].Product,
                                data.category_data[i].Category,
                                data.category_data[i].Subcategory>>],
                          <<FALSE, FALSE, FALSE>>))

\* Lines 456-466.
SynthSource ==
    Synthesize("source", "out", "source.xml", "Source of Truth",
        write_source_sheet(data.source_headers, source_num_flags, data.source_row_count,
                           data.brand_data, data.category_data, data.week_data))

\* Lines 468-470: the source is opened for reading and the output for
\* writing, which creates it or empties the file that is there.
OpenOutput ==
    /\ pc = "out"
    /\ fs' = [fs EXCEPT ![DST] = [kind |-> "zip", members |-> <<>>]]
    /\ copyIdx' = 1
    /\ Goto("copy")
    /\ UNCHANGED <<fs0, tmpDir, tmpFiles, tmp0, shared_strings, rel_map, sheets,
                   sheetIdx, sheet_info, data, replacements, written>>
    /\ UNCHANGED <<addrVars, scanVars, unitVars>>

\* The archive's directory read from its end.
infolist_reversed(archive) == Reverse(archive.members)

\* src_zip.infolist(): the members in the order of the archive's directory.
infolist(archive) == archive.members

\* A copy that writes the source's bytes for every member.
CopiedDataSourceOnly(item) == item.data

\* What the copy loop writes for a member of the source (lines 472-475).
CopiedData(item) ==
    IF item.name \in DOMAIN replacements
    THEN tmpFiles[replacements[item.name]]
    ELSE item.data

\* Lines 471-475, one member.
CopyMember ==
    /\ pc = "copy"
    /\ copyIdx <= Len(infolist(fs[SRC]))
    /\ LET item == infolist(fs[SRC])[copyIdx]
       IN  fs' = [fs EXCEPT ![DST].members =
                     Append(@, [name |-> item.name, data |-> CopiedData(item)])]
    /\ copyIdx' = copyIdx + 1
    /\ UNCHANGED <<pc, err, failedAt, fs0, tmpDir, tmpFiles, tmp0, shared_strings, rel_map, sheets,
                   sheetIdx, sheet_info, data, replacements, written>>
    /\ UNCHANGED <<addrVars, scanVars, unitVars>>

\* A write to the output fails (the disk is full): OSError leaves the
\* with block, which closes the archive with the members written so far.
CopyFails ==
    /\ pc = "copy"
    /\ copyIdx <= Len(infolist(fs[SRC]))
    /\ Raise("OSError")
    /\ UNCHANGED <<fs, fs0, tmpDir, tmpFiles, tmp0, shared_strings, rel_map, sheets,
                   sheetIdx, sheet_info, data, replacements, written, copyIdx>>
    /\ UNCHANGED <<addrVars, scanVars, unitVars>>

\* The end of the with block: both archives are closed.
CloseOutput ==
    /\ pc = "copy"
    /\ copyIdx > Len(infolist(fs[SRC]))
    /\ Goto("cleanup")
    /\ UNCHANGED <<fs, fs0, tmpDir, tmpFiles, tmp0, shared_strings, rel_map, sheets,
                   sheetIdx, sheet_info, data, replacements, written, copyIdx>>
    /\ UNCHANGED <<addrVars, scanVars, unitVars>>

\* Lines 478-482: every file of the directory is unlinked, then the
\* directory removed.
Cleanup ==
    /\ pc = "cleanup"
    /\ tmpFiles' = EmptyMap
    /\ tmpDir' = FALSE
    /\ Goto("done")
    /\ UNCHANGED <<fs, fs0, tmp0, shared_strings, rel_map, sheets,
                   sheetIdx, sheet_info, data, replacements, written, copyIdx>>
    /\ UNCHANGED <<addrVars, scanVars, unitVars>>

Next ==
    \/ Open \/ ParseSharedStrings \/ ReadRels \/ ReadWorkbook \/ ScanSheet
    \/ BuildDictionaries \/ MakeTmpDir
    \/ SynthWeek \/ SynthBrand \/ SynthCategory \/ SynthSource
    \/ OpenOutput \/ CopyMember \/ CopyFails \/ CloseOutput \/ Cleanup

Spec == InitMain /\ [][Next]_vars

(***************************************************************************)
(* Properties                                                              *)
(***************************************************************************)
Ended == pc \in {"done", "failed"}

\* The source can be opened as an archive and holds both structural parts.
SourceReadable ==
    /\ fs0[SRC].kind = "zip"
    /\ WORKBOOK \in NameSet(fs0[SRC])
    /\ RELS \in NameSet(fs0[SRC])

\* Sheet name -> relationship id -> part path leads to a member of the
\* source archive.
Resolves(name) ==
    LET book == MemberData(fs0[SRC], WORKBOOK).sheets
        rels == RelMap(MemberData(fs0[SRC], RELS).rels)
    IN  \E i \in 1..Len(book) :
           /\ book[i].name = name
           /\ book[i].rId \in DOMAIN rels
           /\ SheetPath(rels[book[i].rId]) \in NameSet(fs0[SRC])

SomeSheetUnresolved ==
    /\ SourceReadable
    /\ \E i \in 1..Len(RequestedSheets) : ~Resolves(RequestedSheets[i])

NothingWritten ==
    /\ fs = fs0
    /\ tmpDir = tmp0.dir
    /\ tmpFiles = tmp0.files

\* C1: after a successful patch every member of the source is in the
\* output; a member that is a key of the replacement map holds what the
\* synthesized worksheet file held, every other member holds the bytes of
\* the source member.
C1_MembersReplacedOrCopied ==
    pc = "done" =>
        \A i \in 1..Len(fs0[SRC].members) :
            LET m == fs0[SRC].members[i]
            IN  /\ m.name \in NameSet(fs[DST])
                /\ MemberData(fs[DST], m.name) =
                      IF m.name \in DOMAIN replacements
                      THEN written[replacements[m.name]]
                      ELSE m.data

\* C1 witness: a patch ended well with some members replaced, a worksheet
\* part among those that were not.
C1_Witness ==
    /\ pc = "done"
    /\ Cardinality(DOMAIN replacements) = 3
    /\ SheetPart(2) \in NameSet(fs[DST]) \ DOMAIN replacements

\* C2: the output archive lists the same member names as the source, in
\* the order of the source, whichever members are replaced.
C2_SameNamesSameOrder ==
    pc \in {"cleanup", "done"} => Names(fs[DST]) = Names(fs0[SRC])

\* C2 witness: a source whose members come in the reversed order, patched,
\* with four members replaced.
C2_Witness ==
    /\ pc = "done"
    /\ Names(fs0[SRC])[1] = SheetPart(4)
    /\ Cardinality(DOMAIN replacements) = 4
    /\ Len(fs[DST].members) >= 7

C5_NoTemporaryLeft ==
    (pc = "done" \/ (pc = "failed" /\ failedAt \in {"week", "brand", "category",
                                                     "source", "out", "copy"}))
        => (~tmpDir /\ tmpFiles = EmptyMap)

\* C6: the patch never changes the source archive: the output path is not
\* the source path, and the source holds the same members with the same
\* bytes in every state, the patch going on, ended well or failed.
C6_SourceNeverChanged ==
    /\ DST # SRC
    /\ fs[SRC] = fs0[SRC]

\* C6 witness: the output was written in full next to an unchanged source.
C6_Witness ==
    /\ pc = "done"
    /\ fs[DST] # fs0[DST]
    /\ Len(fs[DST].members) = Len(fs[SRC].members)
    /\ fs[SRC] = fs0[SRC]

\* The value of letters as a numeral of base 26 whose digits A..Z stand
\* for 1..26.
RECURSIVE Power26(_)
Power26(k) == IF k = 0 THEN 1 ELSE 26 * Power26(k - 1)

RECURSIVE NumeralValue(_, _)
NumeralValue(letters, k) ==
    IF k > Len(letters) THEN 0
    ELSE (letters[k] - 64) * Power26(Len(letters) - k) + NumeralValue(letters, k + 1)

\* C7: for every n from 1 to 18278, col_letter_to_index gives n back from
\* col_index_to_letter(n), and the letters are the numeral of n in base 26
\* without a zero digit: capital letters only, 1 -> "A", 26 -> "Z",
\* 27 -> "AA", 18278 -> "ZZZ".
C7_RoundTrip ==
    /\ aPc = "decoded" => aOut = aIdx
    /\ aPc \in {"encoded", "decoded"} =>
          /\ Len(aLetter) >= 1
          /\ \A k \in 1..Len(aLetter) : IsUpper(aLetter[k])
          /\ NumeralValue(aLetter, 1) = aIdx
          /\ aIdx = 1 => aLetter = <<65>>
          /\ aIdx = 26 => aLetter = <<90>>
          /\ aIdx = 27 => aLetter = <<65, 65>>
          /\ aIdx = 18278 => aLetter = <<90, 90, 90>>

\* C7 witness: 18278 was encoded as "ZZZ" and decoded again.
C7_Witness ==
    /\ aPc = "decoded"
    /\ aIdx = 18278
    /\ aLetter = <<90, 90, 90>>
    /\ aOut = 18278

NonAlphabetic(text) == text = <<>> \/ \E k \in 1..Len(text) : ~IsAlpha(text[k])

\* C8 as claimed: col_letter_to_index fails with InvalidAddress on the
\* empty text and on every text holding a character that is no letter; it
\* never returns an integer for one.
C8_NonAlphabeticRejected ==
    (aPc \in {"returned", "raised"} /\ NonAlphabetic(aLetter)) =>
        (aPc = "raised" /\ aErr = "InvalidAddress")

\* A cell whose reference is missing or does not start with a capital
\* letter: it names no column.
MalformedRef(cell) == cell.r = NoAttr \/ cell.r = <<>> \/ ~IsUpper(cell.r[1])

\* The column a well-formed reference names.
RefColumn(cell) == col_letter_to_index(UpperRun(cell.r, 1))

\* The text a cell of the scanned sheet holds.
CellText(cell) == decode_cell(cell, SharedStrings)

\* headers are the texts of cells, each once, in ascending column order.
InColumnOrder(headers, cells) ==
    /\ Len(headers) = Len(cells)
    /\ \A j \in 1..Len(cells) : \E i \in 1..Len(headers) : headers[i] = CellText(cells[j])
    /\ \A i, k \in 1..Len(headers) :
          i < k => \E a, b \in 1..Len(cells) :
                      /\ CellText(cells[a]) = headers[i]
                      /\ CellText(cells[b]) = headers[k]
                      /\ RefColumn(cells[a]) < RefColumn(cells[b])

\* C9: the headers parse_sheet_meta returns are the texts of the cells of
\* the row it read as the header row (the first row, whenever that has a
\* cell), ordered by the ascending column index of each cell's own
\* reference, so Z before AA, whatever the order of the cells in the
\* document and whichever columns are left out.  The ordering is stated
\* for rows whose cells all name a column.
C9_HeadersInColumnOrder ==
    (sPc = "returned" /\ sHdrRows # <<>>) =>
        LET cells == sDoc.rows[sHdrRows[Len(sHdrRows)]].cells
        IN  /\ (\A j \in 1..Len(cells) : ~MalformedRef(cells[j]))
                  => InColumnOrder(sRet.headers, cells)
            /\ sDoc.rows[1].cells # <<>> => sHdrRows = <<1>>

\* C9 witness: a first row written as AA1 then Z1 came back as Z, AA.
C9_Witness ==
    /\ sPc = "returned"
    /\ Len(sDoc.rows) >= 2
    /\ Len(sDoc.rows[1].cells) = 2
    /\ sDoc.rows[1].cells[1].r = <<65, 65, 49>>
    /\ sDoc.rows[1].cells[2].r = <<90, 49>>
    /\ sRet.headers = <<"t2", "t1">>

\* C10 as claimed: parse_sheet_meta processes at most two row elements,
\* whatever the number of rows, with or without r attributes, with or
\* without cells in the header row.
C10_AtMostTwoRowsRead == sRows <= 2

\* The row number of the k-th row element of a sheet: its r attribute,
\* and without one the number after the previous row's (1 for the first).
RECURSIVE RowNumber(_, _)
RowNumber(rows, k) ==
    IF rows[k].r # 0 THEN rows[k].r
    ELSE IF k = 1 THEN 1 ELSE RowNumber(rows, k - 1) + 1

\* The highest row number among the first n row elements, 1 when n = 0.
RECURSIVE HighestRow(_, _)
HighestRow(rows, n) ==
    IF n = 0 THEN 1 ELSE Max(RowNumber(rows, n), HighestRow(rows, n - 1))

\* C11 as claimed: with a dimension element ("A1:" and an end cell)
\* parse_sheet_meta returns the end cell's row as max row and its column
\* as max column letter; without one it returns the highest row number
\* among the rows it read, and col_index_to_letter(number of header
\* cells), "A" standing for a header without cells.
C11_DimensionElseObserved ==
    sPc = "returned" =>
        IF sDoc.hasDim
        THEN <<65, 49, 58>> \o sRet.max_col_letter \o Digits(sRet.max_row) = sDoc.dim
        ELSE /\ sRet.max_row = HighestRow(sDoc.rows, sRows)
             /\ sRet.max_col_letter =
                    IF sRet.headers = <<>> THEN <<65>>
                    ELSE col_index_to_letter(Len(sRet.headers))

\* A sheet without dimension element and without data rows: no row at
\* all, or the header row alone.
NoDataRows == ~sDoc.hasDim /\ Len(sDoc.rows) <= 1

\* C12 as claimed: on a worksheet without dimension element and without
\* data rows parse_sheet_meta never fails and returns max row 1; the max
\* column letter is "A" when there is no row (or no header cell), and
\* col_index_to_letter(header length) when only the header row is there.
C12_EmptySheetNeverFails ==
    NoDataRows =>
        /\ sPc # "raised"
        /\ sPc = "returned" =>
              /\ sRet.max_row = 1
              /\ sRet.max_col_letter =
                     IF sDoc.rows = <<>> \/ sDoc.rows[1].cells = <<>> THEN <<65>>
                     ELSE col_index_to_letter(Len(sDoc.rows[1].cells))

\* The sheet's header row is a single shared-string cell.
SharedHeader ==
    /\ Len(sDoc.rows) = 1
    /\ Len(sDoc.rows[1].cells) = 1
    /\ sDoc.rows[1].cells[1].t = "s"

\* C13 as claimed: a shared-string cell decodes to the table entry at its
\* index when the index is a 0-based position of the table, and to the
\* empty text, without failing and without giving any table entry, for
\* every other integer index.
C13_SharedIndexTolerant ==
    SharedHeader =>
        LET idx == sDoc.rows[1].cells[1].v
        IN  /\ sPc # "raised"
            /\ sPc = "returned" =>
                  sRet.headers = <<IF idx \in 0..(Len(SharedStrings) - 1)
                                   THEN SharedStrings[idx + 1]
                                   ELSE "">>

\* Row i of the file has one cell for each header column, in column order.
OneCellPerColumn(i) ==
    LET row == wFile.rows[i]
    IN  /\ Len(row.cells) = Len(wHeaders)
        /\ \A k \in 1..Len(row.cells) :
              row.cells[k].ref = col_index_to_letter(k) \o Digits(row.r)

\* Row i of the file (of a sheet written from given rows) holds an empty
\* inline string wherever the value is None.
NullsAreEmptyInline(i) ==
    LET row == wFile.rows[i]
    IN  \A k \in 1..Len(row.cells) :
          row.cells[k].val = None =>
              /\ ~row.cells[k].num
              /\ cell_text(row.cells[k].val, row.cells[k].num) = <<>>

\* C14 as claimed: every row written to a synthesized sheet, the header
\* row and every data row, by write_table_sheet and by write_source_sheet,
\* has exactly one cell per header column, none left out, a None value
\* being written as an empty inline string.
C14_OneCellPerHeaderColumn ==
    \A i \in 1..Len(wFile.rows) :
        /\ OneCellPerColumn(i)
        /\ wMode = "table" => NullsAreEmptyInline(i)

\* C17 as claimed: the dimension written is A1:<L><R>, L being
\* col_index_to_letter(number of header columns) and R the number of row
\* elements written, the header row included, in both writers and for
\* every header length and row count they accept.
C17_DimensionCountsRows ==
    wPc = "done" =>
        wFile.dimension = <<col_index_to_letter(Len(wHeaders)), Len(wFile.rows)>>

\* C18 as claimed: when num_flags has not the header's length the writer
\* fails with SchemaMismatch, before anything is written to the sheet.
C18_FlagsMismatchRejected ==
    Len(wFlags) # Len(wHeaders) =>
        /\ ~wBytes
        /\ wPc # "done"
        /\ wPc = "raised" => wErr = "SchemaMismatch"

\* C19: write_source_sheet with row count N calls build_source_row once
\* for each data row index 2..N, in increasing order and for no other
\* index (as many calls as there are indexes in 2..N when it returns);
\* each generated row is written, as the row of its index, before the
\* next is generated, and at most one generated row is held at any time.
C19_OneCallPerDataRow ==
    wMode = "source" =>
        /\ Len(wHeld) <= 1
        /\ \A i \in 1..Len(wCalls) : wCalls[i] = i + 1
        /\ \A i \in 1..Len(wCalls) : wCalls[i] \in 2..wRowCount
        /\ \A k \in 1..Len(wFile.rows) : wFile.rows[k].r = k
        /\ wPc \in {"rows", "done"} => Len(wFile.rows) = 1 + Len(wCalls)
        /\ wPc \in {"generated", "raised"} /\ wCalls # <<>> => Len(wFile.rows) = Len(wCalls)
        /\ wPc = "done" => Len(wCalls) = Cardinality(2..wRowCount)

\* C19 witness: a sheet of row count 3 was written to its end with the
\* generator called for 2 and then for 3 and both rows in the file.
C19_Witness ==
    /\ wMode = "source"
    /\ wPc = "done"
    /\ wRowCount = 3
    /\ wCalls = <<2, 3>>
    /\ Len(wFile.rows) = 3

\* Whether the characters of pat stand in t from position i on.
At(t, i, pat) ==
    /\ i + Len(pat) - 1 <= Len(t)
    /\ SubSeq(t, i, i + Len(pat) - 1) = pat

\* What an XML parser reads from the character data between <t> and
\* </t>: a "<" starts markup, an "&" must start one of the five
\* predefined entity references, every other character stands for itself.
\* ok is FALSE when the data is not the text of a well-formed t element.
RECURSIVE ParseContent(_, _, _)
ParseContent(t, i, acc) ==
    IF i > Len(t) THEN [ok |-> TRUE, text |-> acc]
    ELSE IF t[i] = 60 THEN [ok |-> FALSE, text |-> acc]
    ELSE IF t[i] # 38 THEN ParseContent(t, i + 1, Append(acc, t[i]))
    ELSE IF At(t, i, <<38, 97, 109, 112, 59>>)
         THEN ParseContent(t, i + 5, Append(acc, 38))
    ELSE IF At(t, i, <<38, 108, 116, 59>>)
         THEN ParseContent(t, i + 4, Append(acc, 60))
    ELSE IF At(t, i, <<38, 103, 116, 59>>)
         THEN ParseContent(t, i + 4, Append(acc, 62))
    ELSE IF At(t, i, <<38, 113, 117, 111, 116, 59>>)
         THEN ParseContent(t, i + 6, Append(acc, 34))
    ELSE IF At(t, i, <<38, 97, 112, 111, 115, 59>>)
         THEN ParseContent(t, i + 6, Append(acc, 39))
    ELSE [ok |-> FALSE, text |-> acc]

\* The cells of the file written for a text in a non-numeric column: the
\* header's, and those of the rows handed to write_table_sheet.
TextCells ==
    UNION {{wFile.rows[i].cells[k] :
               k \in {j \in 1..Len(wFile.rows[i].cells) :
                         /\ ~wFile.rows[i].cells[j].num
                         /\ wFile.rows[i].cells[j].val # None}} :
           i \in {j \in 1..Len(wFile.rows) : j = 1 \/ wMode = "table"}}

\* C15: for every text over an alphabet holding <, >, &, the double and
\* the single quote, what build_row_xml writes between <t> and </t> for
\* the text in a non-numeric column is the character data of a well-formed
\* element, and parsing it gives the text back exactly.
C15_EscapedTextRoundTrips ==
    \A c \in TextCells :
        ParseContent(cell_text(c.val, c.num), 1, <<>>) = [ok |-> TRUE, text |-> c.val]

\* C15 witness: the text <&" was written as a cell and reads back as <&".
C15_Witness ==
    /\ wPc = "done"
    /\ \E c \in TextCells :
          /\ c.val = <<60, 38, 34>>
          /\ cell_text(c.val, c.num) = <<38, 108, 116, 59, 38, 97, 109, 112, 59, 34>>
          /\ ParseContent(cell_text(c.val, c.num), 1, <<>>).text = <<60, 38, 34>>

\* Whether text holds none of < > " ' and no & other than the first
\* character of an entity reference.
RECURSIVE OnlyEscaped(_, _)
OnlyEscaped(t, i) ==
    IF i > Len(t) THEN TRUE
    ELSE IF t[i] \in {60, 62, 34, 39} THEN FALSE
    ELSE IF t[i] # 38 THEN OnlyEscaped(t, i + 1)
    ELSE /\ \E ref \in {<<38, 97, 109, 112, 59>>, <<38, 108, 116, 59>>,
                         <<38, 103, 116, 59>>, <<38, 113, 117, 111, 116, 59>>,
                         <<38, 97, 112, 111, 115, 59>>, <<38, 35, 51, 52, 59>>,
                         <<38, 35, 51, 57, 59>>} : At(t, i, ref)
         /\ OnlyEscaped(t, i + 1)

\* C16 as claimed: in the text written for a non-numeric cell, each of
\* & < > " ' of the value appears in escaped form only, never raw.
C16_FiveCharactersEscaped ==
    \A c \in TextCells : OnlyEscaped(cell_text(c.val, c.num), 1)

\* The texts of runs put one after the other, the first in front.
RECURSIVE Flattened(_)
Flattened(runs) == IF runs = <<>> THEN "" ELSE Head(runs) \o Flattened(Tail(runs))

\* C20: parse_shared_strings returns one entry per si element, in
\* document order, each entry being the texts of all the t elements of
\* its si put together in order (runs "Foo", "Bar" give "FooBar"), not
\* the first run alone.
C20_AllRunsFlattened ==
    /\ \A i \in 1..Len(tOut) : tOut[i] = Flattened(tPart.items[i])
    /\ tPc = "returned" => Len(tOut) = Len(tPart.items)

\* C20 witness: an item of the runs "Foo" and "Bar", after an item of
\* the run "Bar", came back as "FooBar", after "Bar".
C20_Witness ==
    /\ tPc = "returned"
    /\ tPart.items = <<<<"Bar">>, <<"Foo", "Bar">>>>
    /\ tOut = <<"Bar", "FooBar">>

\* The column index and the row number a written cell's reference names.
WrittenColumn(cell) == col_letter_to_index(UpperRun(cell.ref, 1))
WrittenRow(cell) == IntOf(DigitRun(cell.ref, Len(UpperRun(cell.ref, 1)) + 1))

\* C21: in a sheet written by write_table_sheet or write_source_sheet the
\* cells of every row stand in strictly increasing column order (and name
\* their row), and the row elements are numbered 1 for the header, then
\* 2, 3, ... for the data rows, strictly increasing and without gap.
C21_CellsAndRowsAscending ==
    \A i \in 1..Len(wFile.rows) :
        LET row == wFile.rows[i]
        IN  /\ row.r = i
            /\ \A k \in 1..Len(row.cells) : WrittenRow(row.cells[k]) = row.r
            /\ \A k \in 1..(Len(row.cells) - 1) :
                  WrittenColumn(row.cells[k]) < WrittenColumn(row.cells[k + 1])

\* C21 witness: a sheet of three columns and two data rows was written
\* to its end, rows 1, 2, 3, each with the cells A, B, C.
C21_Witness ==
    /\ wPc = "done"
    /\ wMode = "table"
    /\ Len(wFile.rows) = 3
    /\ \A i \in 1..3 :
          /\ wFile.rows[i].r = i
          /\ Len(wFile.rows[i].cells) = 3
          /\ \A k \in 1..3 : WrittenColumn(wFile.rows[i].cells[k]) = k

\* The temporary files of the four replacement sheets.
ReplacementFiles == {"week.xml", "brand.xml", "category.xml", "source.xml"}

\* Every replacement sheet was written to its end and registered.
AllSheetsBuilt ==
    /\ \A f \in ReplacementFiles : f \in DOMAIN written /\ written[f].complete
    /\ \A i \in 1..Len(RequestedSheets) :
          /\ RequestedSheets[i] \in DOMAIN sheet_info
          /\ sheet_info[RequestedSheets[i]].path \in DOMAIN replacements
    /\ {replacements[p] : p \in DOMAIN replacements} \subseteq ReplacementFiles

\* main() is in, or past, the copy pass of lines 468-475.
InCopyPass ==
    \/ pc \in {"copy", "cleanup", "done"}
    \/ pc = "failed" /\ failedAt = "copy"

\* C22: the copy pass starts only when every replacement sheet has been
\* written to its end and registered in the replacement map; while a
\* sheet is unbuilt the output archive is as it was before the run; and
\* from the start of the copy pass on the map does not change.
C22_CopyAfterAllSheetsBuilt ==
    /\ [](InCopyPass => AllSheetsBuilt)
    /\ [](~AllSheetsBuilt => fs[DST] = fs0[DST])
    /\ [](pc = "copy" => \A f \in ReplacementFiles : tmpFiles[f] = written[f])
    /\ [][InCopyPass => replacements' = replacements]_vars

\* C22 witness: a member has been copied with all four sheets built.
C22_Witness ==
    /\ pc = "copy"
    /\ copyIdx > 1
    /\ fs[DST].members # <<>>
    /\ AllSheetsBuilt
    /\ Cardinality(DOMAIN replacements) = 4

\* C23 as claimed: for a worksheet without dimension element the max row
\* parse_sheet_meta returns is the row number of the last row present in
\* the sheet (1 for a sheet without rows), however many data rows there
\* are and whether or not the rows carry an r attribute.
C23_MaxRowIsLastRow ==
    (sPc = "returned" /\ ~sDoc.hasDim) =>
        sRet.max_row = IF sDoc.rows = <<>> THEN 1
                       ELSE RowNumber(sDoc.rows, Len(sDoc.rows))

\* The place of a cell's text among the returned headers.
HeaderPlace(headers, cell) == CHOOSE i \in 1..Len(headers) : headers[i] = CellText(cell)

\* The sheet's first row holds a cell whose reference names no column.
HasMalformedHeader ==
    /\ sDoc.rows # <<>>
    /\ \E j \in 1..Len(sDoc.rows[1].cells) : MalformedRef(sDoc.rows[1].cells[j])

\* Every cell of the header row gave one header, and the cells whose
\* references name a column came out in ascending column order.
WellFormedAscending(headers, cells) ==
    /\ Len(headers) = Len(cells)
    /\ \A j \in 1..Len(cells) : \E i \in 1..Len(headers) : headers[i] = CellText(cells[j])
    /\ \A a, b \in 1..Len(cells) :
          (/\ ~MalformedRef(cells[a]) /\ ~MalformedRef(cells[b])
           /\ RefColumn(cells[a]) < RefColumn(cells[b]))
              => HeaderPlace(headers, cells[a]) < HeaderPlace(headers, cells[b])

\* The malformed cells' texts stand at the places the cells have in the
\* document.
MalformedKeepPlace(headers, cells) ==
    \A j \in 1..Len(cells) :
        MalformedRef(cells[j]) => (j <= Len(headers) /\ headers[j] = CellText(cells[j]))

\* C24 as claimed: a header cell whose reference is missing, lowercase or
\* without leading column letters never makes parse_sheet_meta fail; that
\* cell keeps the place it has in the document, and the cells with
\* well-formed references come out in ascending column order.
C24_MalformedKeepsDocumentPlace ==
    HasMalformedHeader =>
        /\ sPc # "raised"
        /\ sPc = "returned" =>
              /\ WellFormedAscending(sRet.headers, sDoc.rows[1].cells)
              /\ MalformedKeepPlace(sRet.headers, sDoc.rows[1].cells)

\* The file main() writes for each of the four sheets it replaces.
ReplacementFileOf == <<"week.xml", "brand.xml", "category.xml", "source.xml">>

\* The replacement written to file has, in its dimension and in its number
\* of row elements, the max row parse_sheet_meta reported for the sheet.
SizedLike(name, file) ==
    /\ written[file].dimension[2] = sheet_info[name].max_row
    /\ Len(written[file].rows) = sheet_info[name].max_row

\* C25 as claimed: each of the four replacement worksheets is sized like
\* the sheet it replaces: the row count of its dimension and the number of
\* its row elements equal the max row the scanner reported for that sheet,
\* for every reported max row, 1 and 0 included.
C25_SizedLikeReplacedSheet ==
    \A k \in 1..4 :
        (ReplacementFileOf[k] \in DOMAIN written /\ RequestedSheets[k] \in DOMAIN sheet_info)
            => SizedLike(RequestedSheets[k], ReplacementFileOf[k])

====
